---- MODULE Spec2Model ----
(***************************************************************************)
(* notios: the process manager (a tree of process nodes with merged logs)  *)
(* and the key-sequence matcher of the terminal UI.                        *)
(*                                                                         *)
(* The process manager keeps its nodes in an arena (a sequence; a node is  *)
(* its index, which also serves as its token) and the shared "main" part   *)
(* of log lines in a heap, because a line merged into a parent shares its  *)
(* main object with the child's line.  A handler is a function from the    *)
(* mutable state S to the state it leaves behind; an action commits the    *)
(* result of one handler.                                                  *)
(***************************************************************************)
EXTENDS Integers, Sequences, FiniteSets, TLC

VARIABLES
    opts,       \* configuration of createProcManager
    nodes,      \* arena of nodes
    mains,      \* heap of LogLineMain objects
    procs,      \* spawned child processes and their two sinks
    now,        \* wall clock read by new Date()
    trace,      \* what the last handler did (events in order)
    err,        \* "none", or the message of the error a handler threw
    fed,        \* number of stream chunks delivered so far
    ops,        \* number of user operations performed so far
    env,        \* what the environment of this run can do (scenario)
    plan,       \* registration requests (createNode calls) still to arrive
    created,    \* tokens returned by createNode so far
    keyCfg,     \* configured (action, key sequence) pairs
    keyTrie,    \* result of constructKeymapping
    keyCur,     \* useAction: current position in the trie
    keyLog      \* the key events handled so far and what each one fired

vars == <<opts, nodes, mains, procs, now, trace, err, fed, ops, env, plan, created,
          keyCfg, keyTrie, keyCur, keyLog>>
procVars == <<opts, nodes, mains, procs, now, trace, err, fed, ops, env, plan, created>>
keyVars == <<keyCfg, keyTrie, keyCur, keyLog>>

(***************************************************************************)
(* Bounds.                                                                 *)
(***************************************************************************)
MaxProcs == 4       \* processes spawned in one behaviour
MaxClock == 2       \* largest wall-clock value
MaxFed == 2         \* stream chunks delivered in one behaviour
MaxOps == 2         \* user operations performed in one behaviour
MaxKeys == 3        \* keystrokes fed to useAction
MaxGroups == 3      \* escape groups in one burst of scroll input

Max(a, b) == IF a >= b THEN a ELSE b
Last(s) == s[Len(s)]
Range(s) == {s[k] : k \in 1..Len(s)}
TakeLast(s, k) == SubSeq(s, Max(1, Len(s) - k + 1), Len(s))

(***************************************************************************)
(* Bytes.  A byte is a one-character string; the control bytes and the two *)
(* final parts of the SGR sequences used by the program are named.         *)
(***************************************************************************)
ESC == "ESC"
LF == "LF"
TAB == "TAB"
CR == "CR"
SgrReset == "[0m"
SgrYellow == "[33m"
Space == " "

NotiosText(word) ==
    <<"[", "N", "O", "T", "I", "O", "S", "]", Space>> \o word
KilledText ==
    NotiosText(<<"M", "A", "N", "U", "A", "L", "L", "Y", Space,
                 "K", "I", "L", "L", "E", "D">>)
RestartedText ==
    NotiosText(<<"M", "A", "N", "U", "A", "L", "L", "Y", Space,
                 "R", "E", "S", "T", "A", "R", "T", "E", "D">>)
DroppedText ==
    NotiosText(<<"H", "I", "S", "T", "O", "R", "Y", Space,
                 "D", "R", "O", "P", "P", "E", "D">>)

\* RESET and YELLOW are empty strings when colour is not supported
RESET(o) == IF o.color THEN <<ESC, SgrReset>> ELSE <<>>
YELLOW(o) == IF o.color THEN <<ESC, SgrYellow>> ELSE <<>>

HeadSize(o) == Max(0, o.historyAlwaysKeepHeadSize)
TailSize(o) == Max(1, o.historyCacheSize + 1)

(***************************************************************************)
(* Stream decoder and style collaborators (ansi-parser, sty).  The decoder *)
(* carries its state across calls, so an SGR sequence split over two       *)
(* chunks still yields one style action.                                   *)
(***************************************************************************)
DecodeByte(parser, b) ==
    IF parser = "esc" /\ b \in {SgrReset, SgrYellow}
    THEN [parser |-> "ground", actions |-> <<[actionType |-> "style", v |-> b]>>]
    ELSE IF b = ESC
    THEN [parser |-> "esc", actions |-> <<>>]
    ELSE IF b \in {LF, TAB, CR}
    THEN [parser |-> "ground", actions |-> <<[actionType |-> "controll", v |-> b]>>]
    ELSE [parser |-> "ground", actions |-> <<[actionType |-> "print", v |-> b]>>]

\* the decoder state in front of byte k of a chunk decoded from state parser:
\* the state after a byte depends on that byte alone
ParserBefore(parser, bytes, k) ==
    IF k = 1 THEN parser
    ELSE DecodeByte("ground", bytes[k - 1]).parser

DecodeAt(parser, bytes, k) == DecodeByte(ParserBefore(parser, bytes, k), bytes[k])

\* the positions of the bytes that complete an action
Acting(parser, bytes) ==
    SelectSeq([k \in 1..Len(bytes) |-> k],
              LAMBDA k : DecodeAt(parser, bytes, k).actions # <<>>)

ActionsAt(parser, bytes, acting) ==
    [j \in 1..Len(acting) |-> DecodeAt(parser, bytes, acting[j]).actions[1]]

\* decodeAnsiBytes(parser, bytes) -> [newParser, actions]
decodeAnsiBytes(parser, bytes) ==
    [parser |-> IF bytes = <<>> THEN parser
                ELSE DecodeAt(parser, bytes, Len(bytes)).parser,
     actions |-> ActionsAt(parser, bytes, Acting(parser, bytes))]

defaultStyContext == "default"
defaultAnsiParser == "ground"
applyActionToSty(sty, action) == IF action.v = SgrYellow THEN "yellow" ELSE "default"
\* bytes that reset and then reapply the cumulative style
restoreSty(sty) ==
    IF sty = "yellow" THEN <<ESC, SgrReset, ESC, SgrYellow>> ELSE <<ESC, SgrReset>>

PrintTok(b) == [type |-> "print", byte |-> b, bytes |-> <<>>]
StyleTok(bs) == [type |-> "style", byte |-> "", bytes |-> bs]

PrintTokens(text) == [k \in 1..Len(text) |-> PrintTok(text[k])]

IsPrint(tok) == tok.type = "print"
\* the bytes of the print tokens of a content sequence
PrintBytes(prints) == [k \in 1..Len(prints) |-> prints[k].byte]
Printable(content) == PrintBytes(SelectSeq(content, IsPrint))

(***************************************************************************)
(* Log lines.  A line is [title, main, oid]: main is a heap reference, 0   *)
(* for the main of a "history dropped" marker line; oid is the identity of *)
(* the LogLine object within its node ($unreadLines is a set of LogLine    *)
(* objects).  A title is <<name, k>>, standing for name when k = 0 and for *)
(* name(k) otherwise.  The timestamp -1 stands for undefined.  hist is the *)
(* history of a node's lines: the mains of all lines ever pushed onto      *)
(* lines, which eviction does not shorten.                                 *)
(***************************************************************************)
NoTs == -1
MarkerId == -1
EmptyTitle == <<"", 0>>
NotiosTitle == <<"[NOTIOS]", 0>>

MarkerMain(o) ==
    [id |-> MarkerId, read |-> TRUE, ts |-> 0,
     content |-> <<StyleTok(RESET(o) \o YELLOW(o))>> \o PrintTokens(DroppedText)
                 \o <<StyleTok(RESET(o))>>]
MarkerLine == [title |-> NotiosTitle, main |-> 0, oid |-> 0]

MainOf(S, ref) == IF ref = 0 THEN MarkerMain(S.opts) ELSE S.mains[ref]
LineId(S, line) == IF line.main = 0 THEN MarkerId ELSE S.mains[line.main].id
LineTs(S, line) == IF line.main = 0 THEN 0 ELSE S.mains[line.main].ts

createEmptyLogAccumulated ==
    [lineCount |-> 0, lines |-> <<>>, unreadLines |-> {}, lastLineToTitle |-> <<>>,
     lineSeq |-> 0, hist |-> <<>>]

\* $lastLineToTitle[title] = line
SetLast(map, title, ref) == (title :> ref) @@ map

NewMain(id, content) == [id |-> id, read |-> FALSE, ts |-> NoTs, content |-> content]

\* push a fresh LogLine with a fresh main onto the node's own lines (362-378, 403-425)
PushNewLine(S, n, content) ==
    [S EXCEPT !.mains = Append(@, NewMain(S.nodes[n].log.lineCount, content)),
              !.nodes[n].log.lines =
                  Append(@, [title |-> EmptyTitle, main |-> Len(S.mains) + 1,
                             oid |-> S.nodes[n].log.lineSeq + 1]),
              !.nodes[n].log.lineSeq = @ + 1,
              !.nodes[n].log.hist = Append(@, Len(S.mains) + 1),
              !.nodes[n].log.unreadLines =
                  IF S.opts.enableUnreadMarker
                  THEN @ \cup {S.nodes[n].log.lineSeq + 1} ELSE @,
              !.nodes[n].log.lastLineToTitle = SetLast(@, EmptyTitle, Len(S.mains) + 1)]

\* const lastLine = lines[lines.length - 1]
LastRef(S, n) == Last(S.nodes[n].log.lines).main

checkTimestamp(S, n, ref) ==
    IF ref # 0 /\ S.mains[ref].ts = NoTs
    THEN [S EXCEPT !.mains[ref].ts = S.now, !.nodes[n].log.lineCount = @ + 1]
    ELSE S

\* lastLine.main.content.push(tok)
PushContent(S, ref, tok) ==
    IF ref = 0 THEN S ELSE [S EXCEPT !.mains[ref].content = Append(@, tok)]

\* node.logOwn.currentSty = applyActionToSty(...), then the style token is pushed
SetSty(S, n, sty) ==
    PushContent([S EXCEPT !.nodes[n].sty = sty], LastRef(S, n), StyleTok(restoreSty(sty)))

\* the switch over the action (386-439), the last line being there
ApplyToLast(S, n, action) ==
    CASE action.actionType = "print" ->
           PushContent(checkTimestamp(S, n, LastRef(S, n)), LastRef(S, n),
                       PrintTok(action.v))
      [] action.actionType = "controll" /\ action.v = TAB ->
           PushContent(checkTimestamp(S, n, LastRef(S, n)), LastRef(S, n),
                       PrintTok(Space))
      [] action.actionType = "controll" /\ action.v = LF ->
           PushNewLine(checkTimestamp(S, n, LastRef(S, n)), n,
                       <<StyleTok(restoreSty(S.nodes[n].sty))>>)
      [] action.actionType = "controll" /\ action.v \notin {TAB, LF} -> S
      [] OTHER -> SetSty(S, n, applyActionToSty(S.nodes[n].sty, action))

\* the first line of a node is created when its first action arrives (362-378)
EnsureLine(S, n) ==
    IF Len(S.nodes[n].log.lines) = 0 THEN PushNewLine(S, n, <<>>) ELSE S

ApplyAction(S, n, action) == ApplyToLast(EnsureLine(S, n), n, action)

RECURSIVE ApplyActions(_, _, _), ContinueActions(_, _, _)
\* for (const action of actions)
ApplyActions(S, n, actions) ==
    IF actions = <<>> THEN S
    ELSE ContinueActions(ApplyAction(S, n, Head(actions)), n, Tail(actions))
ContinueActions(S, n, rest) ==
    IF S.err = "none" THEN ApplyActions(S, n, rest) ELSE S

Throw(S, msg) == IF S.err = "none" THEN [S EXCEPT !.err = msg] ELSE S

ApplyDecoded(S, n, d) ==
    ApplyActions([S EXCEPT !.nodes[n].parser = d.parser], n, d.actions)

\* an event of the handler that is running, for the record kept in trace
Event(ev, n, i, st, cs) == [ev |-> ev, n |-> n, i |-> i, st |-> st, cs |-> cs]
Emit(S, e) == [S EXCEPT !.trace = Append(@, e)]

appendLogToNode(S, newLog, n) ==
    IF S.err # "none" THEN S
    ELSE IF ~S.nodes[n].logOwn
    THEN Throw(S, "appending to log-accumulate-only node")
    ELSE ApplyDecoded(Emit(S, Event("append", n, 0, "", <<>>)), n,
                      decodeAnsiBytes(S.nodes[n].parser, newLog))

(***************************************************************************)
(* The tree.  S is the mutable state a handler works on:                   *)
(* [opts, now, nodes, mains, procs, trace, err].                           *)
(***************************************************************************)
RootNode == 1
NoParent == 0
NoProc == 0
Statuses == {"waiting", "running", "killed", "finished"}
\* exitCode?: number | null, as strings
ExitCodes == {"undefined", "null", "0", "1"}
Truthy(code) == code \notin {"undefined", "null", "0"}

\* $createNode: the node object; its token is its index in the arena
NewNode(name, type, procOwn, status, exitCode) ==
    [name |-> name, type |-> type, parent |-> NoParent,
     procOwn |-> procOwn, raw |-> NoProc,
     logOwn |-> TRUE, sty |-> defaultStyContext, parser |-> defaultAnsiParser,
     children |-> <<>>, status |-> status, exitCode |-> exitCode,
     log |-> createEmptyLogAccumulated, logOmitted |-> FALSE, ignored |-> FALSE]

ChildStatuses(S, kids) == [k \in 1..Len(kids) |-> S.nodes[kids[k]].status]
\* node.children.filter((child) => !child.ignored)
ActiveChildren(S, n) == SelectSeq(S.nodes[n].children, LAMBDA c : ~S.nodes[c].ignored)

AllAre(statuses, s) == \A k \in 1..Len(statuses) : statuses[k] = s

\* the status of a node with at least one non-ignored child (239-248)
StatusRule(procOwn, statuses) ==
    IF procOwn /\ AllAre(statuses, "killed") THEN "killed"
    ELSE IF AllAre(statuses, "finished") THEN "finished"
    ELSE IF AllAre(statuses, "waiting") THEN "waiting"
    ELSE "running"

RECURSIVE ExitCodeReduce(_, _, _)
\* children.reduce((accum, n) => accum || n.exitCode, null)
ExitCodeReduce(S, kids, accum) ==
    IF kids = <<>> THEN accum
    ELSE ExitCodeReduce(S, Tail(kids),
                        IF Truthy(accum) THEN accum ELSE S.nodes[Head(kids)].exitCode)

(***************************************************************************)
(* Merge of the children's newly committed lines ($notifyUpdate, 253-299). *)
(* acc = [known, lineCount, added, last] is what the loop over the         *)
(* children builds: knownTitle, lineCount, beingAdded, $lastLineToTitle.   *)
(***************************************************************************)
RECURSIVE FreshTitle(_, _, _)
FreshTitle(name, known, cnt) ==
    IF <<name, cnt>> \in known THEN FreshTitle(name, known, cnt + 1) ELSE <<name, cnt>>

\* number of lines up to the last committed one
RealLen(S, childLines) ==
    IF Len(childLines) = 0 THEN 0
    ELSE IF LineTs(S, Last(childLines)) # NoTs THEN Len(childLines)
    ELSE Len(childLines) - 1

RECURSIVE ScanFrom(_, _, _, _)
\* the backward scan for the last merged line; from counts lines, as in the source
ScanFrom(S, childLines, lastId, from) ==
    IF from >= 1 /\ LineId(S, childLines[from]) # MarkerId
                 /\ LineId(S, childLines[from]) # lastId
    THEN ScanFrom(S, childLines, lastId, from - 1)
    ELSE from

\* a merge that forgets what it merged before and takes every committed line again
SliceAll(S, acc, title, childLines, realLen) == 0

\* let from = 0; if (lastLine) { from = realLen; while ... }
SliceFrom(S, acc, title, childLines, realLen) ==
    IF title \in DOMAIN acc.last
    THEN ScanFrom(S, childLines, LineId(S, [main |-> acc.last[title]]), realLen)
    ELSE 0

PushSlice(acc, title, childLines, realLen, from) ==
    [acc EXCEPT
        !.last = SetLast(@, title, childLines[realLen].main),
        !.added = @ \o [k \in 1..(realLen - from) |->
                           [title |-> title, main |-> childLines[from + k].main]]]

MergeSlice(S, acc, title, childLines, realLen) ==
    IF realLen > 0
    THEN PushSlice(acc, title, childLines, realLen,
                   SliceFrom(S, acc, title, childLines, realLen))
    ELSE acc

MergeTitled(S, acc, child, title) ==
    MergeSlice(S, [acc EXCEPT !.known = @ \cup {title},
                              !.lineCount = @ + S.nodes[child].log.lineCount],
               title, S.nodes[child].log.lines, RealLen(S, S.nodes[child].log.lines))

\* one iteration of the loop over the children
MergeChild(S, acc, child) ==
    MergeTitled(S, acc, child, FreshTitle(S.nodes[child].name, acc.known, 0))

RECURSIVE MergeChildren(_, _, _)
MergeChildren(S, acc, kids) ==
    IF kids = <<>> THEN acc
    ELSE MergeChildren(S, MergeChild(S, acc, Head(kids)), Tail(kids))

RECURSIVE InsertSorted(_, _, _)
\* insert line behind every line whose timestamp is not larger (stable)
InsertSorted(S, sorted, line) ==
    IF sorted = <<>> THEN <<line>>
    ELSE IF LineTs(S, Last(sorted)) <= LineTs(S, line) THEN Append(sorted, line)
    ELSE Append(InsertSorted(S, SubSeq(sorted, 1, Len(sorted) - 1), line), Last(sorted))

RECURSIVE SortByTimestamp(_, _, _)
\* beingAdded.sort((a, b) => a.main.timestamp - b.main.timestamp), a stable sort
SortByTimestamp(S, sorted, rest) ==
    IF rest = <<>> THEN sorted
    ELSE SortByTimestamp(S, InsertSorted(S, sorted, Head(rest)), Tail(rest))

\* lines.push(...beingAddedSorted) and unreadLines.add(e) for each of them
PushLines(S, n, acc, sorted) ==
    [S EXCEPT !.nodes[n].log =
        [lineCount |-> acc.lineCount,
         lines |-> @.lines \o [k \in 1..Len(sorted) |->
                                  [title |-> sorted[k].title, main |-> sorted[k].main,
                                   oid |-> @.lineSeq + k]],
         unreadLines |-> IF S.opts.enableUnreadMarker
                         THEN @.unreadLines \cup ((@.lineSeq + 1)..(@.lineSeq + Len(sorted)))
                         ELSE @.unreadLines,
         lastLineToTitle |-> acc.last,
         lineSeq |-> @.lineSeq + Len(sorted),
         hist |-> @.hist \o [k \in 1..Len(sorted) |-> sorted[k].main]]]

AppendMerged(S, n, acc) == PushLines(S, n, acc, SortByTimestamp(S, <<>>, acc.added))

MergeLog(S, n, kids) ==
    IF kids = <<>> THEN S
    ELSE AppendMerged(S, n,
             MergeChildren(S, [known |-> {}, lineCount |-> 0, added |-> <<>>,
                               last |-> S.nodes[n].log.lastLineToTitle], kids))

\* the pass on n has come to its merge (253)
Merge(S, n, kids) == MergeLog(Emit(S, Event("merge", n, 0, "", <<>>)), n, kids)

(***************************************************************************)
(* Wiping out the history ($notifyUpdate, 304-344).                        *)
(***************************************************************************)
\* the oids of tail.slice(0, -tailSize), tail being lines.slice(headSize)
DroppedOids(lines, headSize, tailSize) ==
    {lines[k].oid : k \in (headSize + 1)..(Len(lines) - tailSize)}

Wiped(S, n, lines, headSize, tailSize) ==
    [S EXCEPT !.nodes[n].logOmitted = TRUE,
              !.nodes[n].log.unreadLines =
                  IF S.opts.enableUnreadMarker
                  THEN @ \ DroppedOids(lines, headSize, tailSize)
                  ELSE @,
              !.nodes[n].log.lines =
                  SubSeq(lines, 1, headSize) \o <<MarkerLine>>
                  \o TakeLast(SubSeq(lines, headSize + 1, Len(lines)), tailSize)]

WipeHistory(S, n) ==
    IF Len(S.nodes[n].log.lines) > HeadSize(S.opts) + TailSize(S.opts)
    THEN Wiped(S, n, S.nodes[n].log.lines, HeadSize(S.opts), TailSize(S.opts))
    ELSE S

\* the pass on n has done its eviction (304-344) and left W: the node held i lines
\* before, and the eviction has changed the node or kept it as it was
Evicted(S, W, n) ==
    Emit(W, Event("evict", n, Len(S.nodes[n].log.lines),
                  IF W.nodes[n] = S.nodes[n] THEN "kept" ELSE "wiped", <<>>))
Evict(S, n) == Evicted(S, WipeHistory(S, n), n)

\* a scheduler that looks at the first child only and never at the adjacent pairs
SkipLoop(S, n, i) == S

(***************************************************************************)
(* $notifyUpdate of a node, $checkSerial and $startRunning call each other.*)
(***************************************************************************)
RECURSIVE nodeNotifyUpdate(_, _), checkSerial(_, _), startRunning(_, _),
          SerialLoop(_, _, _)

\* the status and exit code recomputation (238-250)
Recompute(S, n, kids) ==
    IF kids = <<>> THEN S
    ELSE [S EXCEPT !.nodes[n].status = StatusRule(S.nodes[n].procOwn, ChildStatuses(S, kids)),
                   !.nodes[n].exitCode = ExitCodeReduce(S, kids, "null")]

\* what a listener of node n sees when it is called at the end of a pass (346-348)
Listen(S, n) ==
    Emit(S, Event("listen", n, 0, S.nodes[n].status,
                  ChildStatuses(S, ActiveChildren(S, n))))

\* the exit codes of the node and of the children the pass on n has reduced (249)
Reduced(S, n, kids) ==
    Emit(S, Event("exitCode", n, 0, S.nodes[n].exitCode,
                  [k \in 1..Len(kids) |-> S.nodes[kids[k]].exitCode]))

\* node.parent?.$notifyUpdate() (302)
NotifyParent(S, n) ==
    IF S.nodes[n].parent # NoParent THEN nodeNotifyUpdate(S, S.nodes[n].parent) ELSE S

\* the pass, children being the non-ignored children found at its start
NotifyWith(S, n, children) ==
    Listen(Evict(NotifyParent(Merge(checkSerial(Reduced(Recompute(S, n, children),
                                                        n, children), n),
                                    n, children), n), n), n)

nodeNotifyUpdate(S, n) ==
    IF S.err # "none" THEN S ELSE NotifyWith(S, n, ActiveChildren(S, n))

\* the scheduler starts child number i (counted from 0) of n
SchedStart(S, n, i) ==
    startRunning(Emit(S, Event("sched", n, i, "", ChildStatuses(S, S.nodes[n].children))),
                 S.nodes[n].children[i + 1])

\* for (let i = 0; i + 1 < node.children.length; i += 1) (207-211)
SerialLoop(S, n, i) ==
    IF ~(i + 1 < Len(S.nodes[n].children)) THEN S
    ELSE IF /\ S.nodes[S.nodes[n].children[i + 1]].status = "finished"
            /\ S.nodes[S.nodes[n].children[i + 2]].status = "waiting"
    THEN SerialLoop(SchedStart(S, n, i + 1), n, i + 1)
    ELSE SerialLoop(S, n, i + 1)

checkSerial(S, n) ==
    IF /\ S.nodes[n].status = "running"
       /\ S.nodes[n].type = "serial"
       /\ Len(S.nodes[n].children) > 0
    THEN IF S.nodes[S.nodes[n].children[1]].status = "waiting"
         THEN SchedStart(S, n, 0)
         ELSE SerialLoop(S, n, 0)
    ELSE S

\* the global $notifyUpdate (195-199): the shape of the tree changed
globalNotifyUpdate(S) == Emit(S, Event("tree", 0, 0, "", <<>>))

Sink(name, n) ==
    [NewNode(name, "none", FALSE, "running", "undefined") EXCEPT !.parent = n]

\* a start that puts the two sinks behind the children the node has
AttachSinksBehind(S, n) ==
    [S EXCEPT !.nodes = [Append(Append(@, Sink("<out>", n)), Sink("<err>", n))
                            EXCEPT ![n].children = @ \o <<Len(S.nodes) + 1, Len(S.nodes) + 2>>]]

\* the two sinks are created and put in front of the children (474-496)
AttachSinks(S, n) ==
    [S EXCEPT !.nodes = [Append(Append(@, Sink("<out>", n)), Sink("<err>", n))
                            EXCEPT ![n].children = <<Len(S.nodes) + 1, Len(S.nodes) + 2>> \o @]]

\* cp.spawn and node.procOwn.$raw = p (499-521); the new sinks are children 0 and 1
SpawnProc(S, n) ==
    Emit([S EXCEPT !.nodes[n].raw = Len(S.procs) + 1,
                   !.procs = Append(@, [node |-> n, out |-> S.nodes[n].children[1],
                                        err |-> S.nodes[n].children[2], exited |-> FALSE])],
         Event("spawn", n, Len(S.procs) + 1, "", <<>>))

\* $startRunning after node.status = 'running'
StartWith(S, n) ==
    IF ~S.nodes[n].procOwn THEN checkSerial(S, n)
    ELSE nodeNotifyUpdate(SpawnProc(globalNotifyUpdate(AttachSinks(S, n)), n), n)

startRunning(S, n) ==
    IF S.err # "none" THEN S
    ELSE StartWith([S EXCEPT !.nodes[n].status = "running"], n)

(***************************************************************************)
(* The public operations and the process callbacks, as functions of S.     *)
(***************************************************************************)
UndefinedToken == 0
\* a lookup that falls back to the root for a token that is not in the registry too
FindOrRoot(S, token) == IF token \in 1..Len(S.nodes) THEN token ELSE RootNode

\* findNodeByToken (461-466); 0 stands for undefined as result
findNodeByToken(S, token) ==
    IF token = UndefinedToken THEN RootNode
    ELSE IF token \in 1..Len(S.nodes) THEN token
    ELSE 0

\* parentNode.children.push(node); node.parent = parentNode (557-567)
Attach(S, parentNode, node) ==
    [S EXCEPT !.nodes = [Append(@, [node EXCEPT !.parent = parentNode])
                            EXCEPT ![parentNode].children = Append(@, Len(S.nodes) + 1)]]

\* a registration that never starts the node it registers
StartNever(S, node, procOwn, status) == S

\* if (params.procOwn && params.status === 'running') $startRunning(node) (569-571)
StartIfRunning(S, node, procOwn, status) ==
    IF procOwn /\ status = "running" THEN startRunning(S, node) ELSE S

CreateUnder(S, parentNode, name, type, procOwn, status) ==
    IF parentNode = 0 THEN Emit(S, Event("return", 0, 0, "null", <<>>))
    ELSE StartIfRunning(Attach(S, parentNode,
                               NewNode(name, type, procOwn, status, "undefined")),
                        Len(S.nodes) + 1, procOwn, status)

createNode(S, parentToken, name, type, procOwn, status) ==
    CreateUnder(S, findNodeByToken(S, parentToken), name, type, procOwn, status)

\* the 'data' listeners of a spawned process (525-532)
dataListener(S, sink, buf) == nodeNotifyUpdate(appendLogToNode(S, buf, sink), sink)

RECURSIVE NotifyEach(_, _)
NotifyEach(S, ns) ==
    IF ns = <<>> THEN S ELSE NotifyEach(nodeNotifyUpdate(S, Head(ns)), Tail(ns))

\* an exit listener that overwrites whatever status the sink has
AlwaysFinished(status) == "finished"

Finished(status) == IF status = "running" THEN "finished" ELSE status

\* the assignments of the 'exit' listener (536-543)
Exited(S, pid, exitCode) ==
    [S EXCEPT !.nodes[S.procs[pid].out].status = Finished(@),
              !.nodes[S.procs[pid].err].status = Finished(@),
              !.nodes[S.procs[pid].out].exitCode = exitCode,
              !.nodes[S.procs[pid].err].exitCode = exitCode,
              !.procs[pid].exited = TRUE]

\* the 'exit' listener of a spawned process (535-549)
exitListener(S, pid, exitCode) ==
    NotifyEach(Exited(S, pid, exitCode), <<S.procs[pid].out, S.procs[pid].err>>)

\* inode.children[i].<field> = value; a TypeError when there is no such child
SetChild(S, n, i, field, value) ==
    IF S.err # "none" THEN S
    ELSE IF Len(S.nodes[n].children) < i + 1
    THEN Throw(S, "TypeError: cannot set properties of undefined")
    ELSE IF field = "ignored"
    THEN [S EXCEPT !.nodes[S.nodes[n].children[i + 1]].ignored = value]
    ELSE [S EXCEPT !.nodes[S.nodes[n].children[i + 1]].status = value]

\* $appendLogToNode(buf, inode.children[i])
AppendToChild(S, n, i, buf) ==
    IF S.err # "none" THEN S
    ELSE IF Len(S.nodes[n].children) < i + 1
    THEN Throw(S, "TypeError: cannot read properties of undefined")
    ELSE appendLogToNode(S, buf, S.nodes[n].children[i + 1])

\* the kill notice without the line feed in front of it
KilledInline(o) == RESET(o) \o YELLOW(o) \o KilledText \o RESET(o) \o <<LF>>

RestartedLine(o) == RESET(o) \o YELLOW(o) \o RestartedText \o RESET(o) \o <<LF>>
KilledLine(o) == <<LF>> \o RESET(o) \o YELLOW(o) \o KilledText \o RESET(o) \o <<LF>>

restartNode(S, n) ==
    IF S.err # "none" \/ ~S.nodes[n].procOwn
       \/ S.nodes[n].status \notin {"finished", "killed"}
    THEN S
    ELSE AppendToChild(
             startRunning(SetChild(SetChild(S, n, 0, "ignored", TRUE), n, 1, "ignored", TRUE),
                          n),
             n, 0, RestartedLine(S.opts))

\* crossKill(pid); delete inode.procOwn.$raw; inode.status = 'killed' (606-608)
Signalled(S, n) ==
    [Emit(S, Event("crossKill", n, S.nodes[n].raw, "", <<>>))
        EXCEPT !.nodes[n].raw = NoProc, !.nodes[n].status = "killed"]

\* a kill that does not look at the status of the node
KillAnyStatus(S, n) ==
    IF S.err # "none" \/ ~S.nodes[n].procOwn \/ S.nodes[n].raw = NoProc
    THEN S
    ELSE nodeNotifyUpdate(
             AppendToChild(
                 SetChild(SetChild(Signalled(S, n), n, 0, "status", "killed"),
                          n, 1, "status", "killed"),
                 n, 0, KilledLine(S.opts)),
             n)

killNode(S, n) ==
    IF S.err # "none" \/ ~S.nodes[n].procOwn \/ S.nodes[n].raw = NoProc
       \/ S.nodes[n].status # "running"
    THEN S
    ELSE nodeNotifyUpdate(
             AppendToChild(
                 SetChild(SetChild(Signalled(S, n), n, 0, "status", "killed"),
                          n, 1, "status", "killed"),
                 n, 0, KilledLine(S.opts)),
             n)

RECURSIVE restartAllNode(_, _), RestartAllList(_, _), killAllNode(_, _), KillAllList(_, _)

RestartAllList(S, kids) ==
    IF kids = <<>> THEN S ELSE RestartAllList(restartAllNode(S, Head(kids)), Tail(kids))
\* node.children.forEach((c) => restartAllNode(c)), over the children after the restart
RestartAllKids(S, n) == RestartAllList(S, S.nodes[n].children)
restartAllNode(S, n) == RestartAllKids(restartNode(S, n), n)

KillAllList(S, kids) ==
    IF kids = <<>> THEN S ELSE KillAllList(killAllNode(S, Head(kids)), Tail(kids))
KillAllKids(S, n) == KillAllList(S, S.nodes[n].children)
killAllNode(S, n) == KillAllKids(killNode(S, n), n)

\* the mains of the lines in the node's unread set
UnreadRefs(S, n) ==
    {S.nodes[n].log.lines[k].main :
        k \in {j \in 1..Len(S.nodes[n].log.lines) :
                  S.nodes[n].log.lines[j].oid \in S.nodes[n].log.unreadLines}}

\* line.main.read = true for each unread line; $unreadLines.clear() (628-631)
ClearUnread(S, n) ==
    [S EXCEPT !.mains = [r \in 1..Len(S.mains) |->
                            IF r \in UnreadRefs(S, n) THEN [@[r] EXCEPT !.read = TRUE]
                            ELSE @[r]],
              !.nodes[n].log.unreadLines = {}]

RECURSIVE MarkInternal(_, _), MarkList(_, _)
MarkList(S, kids) ==
    IF kids = <<>> THEN S ELSE MarkList(MarkInternal(S, Head(kids)), Tail(kids))
MarkInternal(S, n) == MarkList(ClearUnread(S, n), S.nodes[n].children)

markNodeAsRead(S, n) ==
    IF ~S.opts.enableUnreadMarker THEN S ELSE nodeNotifyUpdate(MarkInternal(S, n), n)

(***************************************************************************)
(* The process manager as a state machine: one action per public operation *)
(* and per process callback.  A behaviour runs one scenario: registration  *)
(* requests arrive in the order of its plan, and its environment says what *)
(* the processes print, how they exit and how much the user does.  A       *)
(* request names its parent by position: 0 for an undefined token, k for   *)
(* the token of the k-th created node, -1 for a token that is not in the   *)
(* registry.                                                               *)
(***************************************************************************)
SinkNames == {"<out>", "<err>"}

Options(head, cache, unread, color) ==
    [forceNoColor |-> ~color, enableUnreadMarker |-> unread, color |-> color,
     historyAlwaysKeepHeadSize |-> head, historyCacheSize |-> cache]

Req(parent, name, type, procOwn, status) ==
    [parent |-> parent, name |-> name, type |-> type, procOwn |-> procOwn,
     status |-> status]
StaleParent == -1

\* what the processes print, how they exit, and how much happens in a run
Env(chunks, codes, fedMax, procMax, clockMax, opMax) ==
    [chunks |-> chunks, codes |-> codes, fedMax |-> fedMax, procMax |-> procMax,
     clockMax |-> clockMax, opMax |-> opMax]

Scenario(o, reqs, e) == [opts |-> o, reqs |-> reqs, env |-> e]

\* a serial group of three process-owning leaves, the first created running
SerialScenario ==
    Scenario(Options(0, 0, TRUE, TRUE),
             <<Req(0, "g", "serial", FALSE, "running"),
               Req(1, "a", "none", TRUE, "running"),
               Req(1, "b", "none", TRUE, "waiting"),
               Req(1, "c", "none", TRUE, "waiting")>>,
             Env({}, {"0"}, 0, MaxProcs, 1, MaxOps))
\* a parallel group of three process-owning leaves
ParallelScenario ==
    Scenario(Options(0, 0, TRUE, TRUE),
             <<Req(0, "g", "parallel", FALSE, "running"),
               Req(1, "a", "none", TRUE, "running"),
               Req(1, "a", "none", TRUE, "running"),
               Req(1, "b", "none", TRUE, "running")>>,
             Env({}, {"0", "1"}, 0, 3, 1, 1))
\* a serial process-owning node whose subprocess registers a group
NestedScenario ==
    Scenario(Options(0, 0, TRUE, TRUE),
             <<Req(0, "s", "serial", TRUE, "running"),
               Req(1, "g", "parallel", FALSE, "waiting"),
               Req(2, "a", "none", TRUE, "waiting"),
               Req(StaleParent, "a", "none", TRUE, "running")>>,
             Env({<<"x">>}, {"0"}, 1, MaxProcs, 1, MaxOps))
\* one process under the root, printing; one head line and two tail lines are kept
LogScenario ==
    Scenario(Options(1, 1, TRUE, TRUE),
             <<Req(0, "a", "none", TRUE, "running")>>,
             Env({<<"x">>, <<"x", LF, "y">>, <<SgrYellow, LF>>},
                 {"0"}, MaxFed, 2, MaxClock, 1))
\* one process under the root, killed and restarted while its callbacks arrive
KillScenario ==
    Scenario(Options(0, 0, TRUE, TRUE),
             <<Req(0, "a", "none", TRUE, "running")>>,
             Env({<<"x">>}, {"0", "null"}, 1, 2, 1, MaxOps))
\* a process-owning node registered waiting under the root, which nothing starts,
\* and a process registered under it
OwnerScenario ==
    Scenario(Options(0, 0, TRUE, TRUE),
             <<Req(0, "p", "none", TRUE, "waiting"),
               Req(1, "a", "none", TRUE, "running")>>,
             Env({<<"x">>}, {"0"}, 1, 2, 1, MaxOps))
\* a serial group registered waiting under a serial process-owning node, its
\* process-owning leaves all registered waiting
QueueScenario ==
    Scenario(Options(0, 0, TRUE, TRUE),
             <<Req(0, "s", "serial", TRUE, "running"),
               Req(1, "g", "serial", FALSE, "waiting"),
               Req(2, "a", "none", TRUE, "waiting"),
               Req(2, "b", "none", TRUE, "waiting")>>,
             Env({}, {"0"}, 0, MaxProcs, 1, MaxOps))
Scenarios ==
    {SerialScenario, ParallelScenario, NestedScenario, LogScenario, KillScenario,
     OwnerScenario, QueueScenario}

Cur == [opts |-> opts, now |-> now, nodes |-> nodes, mains |-> mains, procs |-> procs,
        trace |-> <<>>, err |-> "none"]

AllNodes == 1..Len(nodes)

\* the user performs one more operation
UserOp ==
    /\ ops < env.opMax
    /\ ops' = ops + 1
    /\ UNCHANGED <<fed, plan, created>>

\* the result R of a handler that did something becomes the next state, within the
\* bounds of the scenario; a handler that returns at once changes nothing
Effect(R) ==
    /\ err = "none"
    /\ R # Cur
    /\ Len(R.procs) <= env.procMax
    /\ nodes' = R.nodes
    /\ mains' = R.mains
    /\ procs' = R.procs
    /\ trace' = R.trace
    /\ err' = R.err
    /\ UNCHANGED <<opts, env, now, keyVars>>

RootInit ==
    <<[NewNode("<root>", "none", FALSE, "waiting", "undefined") EXCEPT !.parent = NoParent]>>

InitProc ==
    /\ \E sc \in Scenarios :
          /\ opts = sc.opts
          /\ env = sc.env
          /\ plan = sc.reqs
    /\ nodes = RootInit
    /\ mains = <<>>
    /\ procs = <<>>
    /\ now = 1
    /\ trace = <<>>
    /\ err = "none"
    /\ fed = 0
    /\ ops = 0
    /\ created = <<>>

ParentToken(parent) ==
    IF parent = StaleParent THEN Len(nodes) + 1
    ELSE IF parent = 0 THEN UndefinedToken
    ELSE created[parent]

CreateNode ==
    /\ plan # <<>>
    /\ \E R \in {createNode(Cur, ParentToken(Head(plan).parent), Head(plan).name,
                            Head(plan).type, Head(plan).procOwn, Head(plan).status)} :
          /\ Effect(R)
          /\ created' = IF Len(R.nodes) > Len(nodes)
                        THEN Append(created, Len(nodes) + 1)
                        ELSE created
    /\ plan' = Tail(plan)
    /\ UNCHANGED <<fed, ops>>

StreamData ==
    \E pid \in 1..Len(procs), stream \in {"out", "err"}, buf \in env.chunks :
        /\ ~procs[pid].exited
        /\ fed < env.fedMax
        /\ fed' = fed + 1
        /\ \E R \in {dataListener(Cur, procs[pid][stream], buf)} : Effect(R)
        /\ UNCHANGED <<ops, plan, created>>

ProcessExit ==
    \E pid \in 1..Len(procs), exitCode \in env.codes :
        /\ ~procs[pid].exited
        /\ \E R \in {exitListener(Cur, pid, exitCode)} : Effect(R)
        /\ UNCHANGED <<fed, ops, plan, created>>

RestartNode ==
    \E n \in AllNodes :
        /\ UserOp
        /\ \E R \in {restartNode(Cur, n)} : Effect(R)

RestartAllNode ==
    \E n \in AllNodes :
        /\ UserOp
        /\ \E R \in {restartAllNode(Cur, n)} : Effect(R)

KillNode ==
    \E n \in AllNodes :
        /\ UserOp
        /\ \E R \in {killNode(Cur, n)} : Effect(R)

KillAllNode ==
    \E n \in AllNodes :
        /\ UserOp
        /\ \E R \in {killAllNode(Cur, n)} : Effect(R)

MarkNodeAsRead ==
    \E n \in AllNodes :
        /\ UserOp
        /\ \E R \in {markNodeAsRead(Cur, n)} : Effect(R)

\* time passes between two handlers
Tick ==
    /\ err = "none"
    /\ now < env.clockMax
    /\ now' = now + 1
    /\ UNCHANGED <<opts, env, nodes, mains, procs, trace, err, fed, ops, plan, created,
                   keyVars>>

(***************************************************************************)
(* Key mapping (utils/keymapping.ts) and the useAction hook.  A string is  *)
(* a sequence of characters; the name of a special key is one character of *)
(* a token.  A trie is the prefix-closed set of the token paths of its     *)
(* nodes together with the actions bound to paths; a position in the trie  *)
(* is a path, the root being the empty path.                               *)
(***************************************************************************)
Flag(b, c) == IF b THEN <<c>> ELSE <<"-">>

Char(ch, ctrl, meta, shift) ==
    [type |-> "char", char |-> <<ch>>, special |-> "", ctrl |-> ctrl, meta |-> meta,
     shift |-> shift]
Special(name, ctrl, shift) ==
    [type |-> "special", char |-> <<>>, special |-> name, ctrl |-> ctrl, meta |-> FALSE,
     shift |-> shift]

keymappingToString(keymapping) ==
    IF keymapping.type = "char"
    THEN keymapping.char \o Flag(keymapping.ctrl, "c") \o Flag(keymapping.meta, "m")
         \o Flag(keymapping.shift, "s")
    ELSE <<keymapping.special, ";">> \o Flag(keymapping.ctrl, "c")
         \o Flag(keymapping.shift, "s")

\* a keymapping root is a single key or an explicit sequence of keys
One(keymapping) == [type |-> "one", one |-> keymapping, seq |-> <<>>]
SeqOf(seq) == [type |-> "seq", one |-> Char("", FALSE, FALSE, FALSE), seq |-> seq]
toSeq(keymappingRoot) ==
    IF keymappingRoot.type = "seq" THEN keymappingRoot.seq ELSE <<keymappingRoot.one>>

\* an entry of the record action -> keymappings; isNull stands for a null value
Entry(action, maps) == [action |-> action, isNull |-> FALSE, maps |-> maps]
NullEntry(action) == [action |-> action, isNull |-> TRUE, maps |-> <<>>]

RECURSIVE FlatPairs(_)
\* entries.filter(non-null).flatMap(([action, maps]) => maps.map(m => [action, toSeq(m)]))
FlatPairs(entries) ==
    IF entries = <<>> THEN <<>>
    ELSE (IF Head(entries).isNull THEN <<>>
          ELSE [k \in 1..Len(Head(entries).maps) |->
                   [action |-> Head(entries).action,
                    seq |-> toSeq(Head(entries).maps[k])]])
         \o FlatPairs(Tail(entries))

\* pairs.sort((a, b) => a.seq.length - b.seq.length): stable, by length
OfLength(pairs, len) == SelectSeq(pairs, LAMBDA p : Len(p.seq) = len)
RECURSIVE SortFrom(_, _, _)
SortFrom(pairs, len, maxLen) ==
    IF len > maxLen THEN <<>>
    ELSE OfLength(pairs, len) \o SortFrom(pairs, len + 1, maxLen)
LongestSeq(pairs) ==
    IF pairs = <<>> THEN 0
    ELSE CHOOSE m \in {Len(pairs[k].seq) : k \in 1..Len(pairs)} :
            \A k \in 1..Len(pairs) : Len(pairs[k].seq) <= m
sortedSeqEntries(entries) ==
    SortFrom(FlatPairs(entries), 0, LongestSeq(FlatPairs(entries)))

Tokens(seq) == [k \in 1..Len(seq) |-> keymappingToString(seq[k])]
Prefix(s, k) == SubSeq(s, 1, k)

NoError == [kind |-> "none", action |-> "", other |-> "", seq |-> <<>>]
EmptyTrie == [ok |-> TRUE, paths |-> {<<>>}, bound |-> {}, action |-> <<>>, error |-> NoError]

\* a walk that looks for a bound action on the node it ends on only
BoundAtEnd(trie, path) == {k \in {Len(path)} : path \in trie.bound}

\* the positions on the walk of path that carry a bound action (78-84)
BoundOn(trie, path) == {k \in 1..Len(path) : Prefix(path, k) \in trie.bound}
First(set) == CHOOSE k \in set : \A j \in set : k <= j

Failed(trie, kind, action, other, seq) ==
    [trie EXCEPT !.ok = FALSE,
                 !.error = [kind |-> kind, action |-> action, other |-> other, seq |-> seq]]

\* the walk of one sequence down the trie (67-86), the sequence being non-empty
Walk(trie, action, seq, path) ==
    IF BoundOn(trie, path) # {}
    THEN Failed(trie, "including", action,
                trie.action[Prefix(path, First(BoundOn(trie, path)))], seq)
    ELSE [trie EXCEPT !.paths = @ \cup {Prefix(path, k) : k \in 1..Len(path)},
                      !.bound = @ \cup {path},
                      !.action = (path :> action) @@ @]

\* one iteration of the loop over the sorted pairs (63-87)
Insert(trie, action, seq) ==
    IF ~trie.ok THEN trie
    ELSE IF Len(seq) = 0 THEN Failed(trie, "zero-length", action, "", seq)
    ELSE Walk(trie, action, seq, Tokens(seq))

RECURSIVE InsertAll(_, _)
InsertAll(trie, pairs) ==
    IF pairs = <<>> THEN trie
    ELSE InsertAll(Insert(trie, Head(pairs).action, Head(pairs).seq), Tail(pairs))

constructKeymapping(actionKeymappings) ==
    InsertAll(EmptyTrie, sortedSeqEntries(actionKeymappings))

(***************************************************************************)
(* matchKeymapping.  A key event is [input, key]: the raw input string and *)
(* the structured key: its modifiers and the special-key flags that are    *)
(* set.                                                                    *)
(***************************************************************************)
KeyEvent(input, ctrl, meta, shift, flags) ==
    [input |-> input, ctrl |-> ctrl, meta |-> meta, shift |-> shift, flags |-> flags]

StartsWith(s, p) == Len(s) >= Len(p) /\ SubSeq(s, 1, Len(p)) = p
EndsWith(s, c) == Len(s) >= 1 /\ s[Len(s)] = c

\* /^\[X(?:\x1b\[X)+$/ for the letter X
Repeated(input, letter) ==
    /\ Len(input) >= 5
    /\ (Len(input) - 2) % 3 = 0
    /\ input[1] = "[" /\ input[2] = letter
    /\ \A j \in 1..((Len(input) - 2) \div 3) :
          /\ input[3 * j] = ESC
          /\ input[3 * j + 1] = "["
          /\ input[3 * j + 2] = letter

\* the names of the special keys, in the order the normaliser tries them
specialKeyNames ==
    <<"upArrow", "downArrow", "leftArrow", "rightArrow", "pageDown", "pageUp",
      "return", "escape", "tab", "backspace", "delete">>

ToLower(c) == IF c = "G" THEN "g" ELSE IF c = "X" THEN "x" ELSE c
toLowerCase(s) == [k \in 1..Len(s) |-> ToLower(s[k])]

Sub2Ctrl(input) ==
    StartsWith(input, <<"[", "1", ";", "5">>) \/ StartsWith(input, <<"[", "1", ";", "6">>)
Sub2Shift(input) ==
    StartsWith(input, <<"[", "1", ";", "2">>) \/ StartsWith(input, <<"[", "1", ";", "6">>)

\* the structured classification (232-262)
Structured(e) ==
    IF \E k \in 1..Len(specialKeyNames) : specialKeyNames[k] \in e.flags
    THEN LET name == specialKeyNames[First({k \in 1..Len(specialKeyNames) :
                                               specialKeyNames[k] \in e.flags})]
         IN  IF name = "tab" THEN keymappingToString(Special(name, FALSE, e.shift))
             ELSE IF name \in {"delete", "backspace", "return"}
             THEN keymappingToString(Special(name, FALSE, FALSE))
             ELSE keymappingToString(Special(name, e.ctrl, e.shift))
    ELSE toLowerCase(e.input) \o Flag(e.ctrl, "c") \o Flag(e.meta, "m")
         \o Flag(e.shift, "s")

\* the trailing letters of modified sequences (180-229)
Trailing(e, ctrl, shift) ==
    IF EndsWith(e.input, "H") THEN keymappingToString(Special("home", ctrl, shift))
    ELSE IF EndsWith(e.input, "F") THEN keymappingToString(Special("end", ctrl, shift))
    ELSE IF EndsWith(e.input, "D") THEN keymappingToString(Special("leftArrow", ctrl, shift))
    ELSE IF EndsWith(e.input, "B") THEN keymappingToString(Special("downArrow", ctrl, shift))
    ELSE IF EndsWith(e.input, "C") THEN keymappingToString(Special("rightArrow", ctrl, shift))
    ELSE IF EndsWith(e.input, "A") THEN keymappingToString(Special("upArrow", ctrl, shift))
    ELSE Structured(e)

\* the token k of a key event (102-263)
Normalise(e) ==
    IF Repeated(e.input, "B") THEN keymappingToString(Special("upWheel", FALSE, FALSE))
    ELSE IF Repeated(e.input, "A")
    THEN keymappingToString(Special("downWheel", FALSE, FALSE))
    ELSE IF e.input = <<"[", "1", "~">>
    THEN keymappingToString(Special("home", Sub2Ctrl(e.input), Sub2Shift(e.input)))
    ELSE IF e.input = <<"[", "4", "~">>
    THEN keymappingToString(Special("end", Sub2Ctrl(e.input), Sub2Shift(e.input)))
    ELSE IF e.input = <<"[", "5", ";", "2", "~">>
    THEN keymappingToString(Special("pageUp", Sub2Ctrl(e.input), TRUE))
    ELSE IF e.input = <<"[", "6", ";", "2", "~">>
    THEN keymappingToString(Special("pageDown", Sub2Ctrl(e.input), TRUE))
    ELSE IF e.input = <<"[", "5", ";", "6", "~">>
    THEN keymappingToString(Special("pageUp", TRUE, TRUE))
    ELSE IF e.input = <<"[", "6", ";", "6", "~">>
    THEN keymappingToString(Special("pageDown", TRUE, TRUE))
    ELSE IF Sub2Ctrl(e.input) \/ Sub2Shift(e.input)
    THEN Trailing(e, Sub2Ctrl(e.input), Sub2Shift(e.input))
    ELSE Structured(e)

Undefined == "undefined"
\* [next, matched]; hasNext tells whether next is defined
MatchResult(hasNext, next, matched) ==
    [hasNext |-> hasNext, next |-> next, matched |-> matched]

\* a lookup that tries a key that cannot descend once more, from the root
RetryLookup(trie, cur, k) ==
    IF Append(cur, k) \in trie.paths
    THEN IF Append(cur, k) \in trie.bound
         THEN MatchResult(FALSE, <<>>, trie.action[Append(cur, k)])
         ELSE MatchResult(TRUE, Append(cur, k), Undefined)
    ELSE IF <<k>> \notin trie.paths THEN MatchResult(FALSE, <<>>, Undefined)
    ELSE IF <<k>> \in trie.bound THEN MatchResult(FALSE, <<>>, trie.action[<<k>>])
    ELSE MatchResult(TRUE, <<k>>, Undefined)

\* the lookup (265-274)
Lookup(trie, cur, k) ==
    IF Append(cur, k) \notin trie.paths THEN MatchResult(FALSE, <<>>, Undefined)
    ELSE IF Append(cur, k) \in trie.bound
    THEN MatchResult(FALSE, <<>>, trie.action[Append(cur, k)])
    ELSE MatchResult(TRUE, Append(cur, k), Undefined)

matchKeymapping(trie, cur, e) == Lookup(trie, cur, Normalise(e))

(***************************************************************************)
(* The useAction hook as a state machine: the trie is built once from the  *)
(* page's key mappings and the help mapping, then every key event moves    *)
(* the current position.                                                   *)
(***************************************************************************)
KeyG == Char("g", FALSE, FALSE, FALSE)
KeyX == Char("x", FALSE, FALSE, FALSE)
HelpEntry == Entry("help", <<One(Char("?", FALSE, FALSE, FALSE))>>)

\* { ...notiosConfig.keymappings[page], help: [...] } (22-30)
WithHelp(entries) ==
    IF \E k \in 1..Len(entries) : entries[k].action = "help"
    THEN [k \in 1..Len(entries) |->
             IF entries[k].action = "help" THEN HelpEntry ELSE entries[k]]
    ELSE Append(entries, HelpEntry)

Roots ==
    {One(KeyG), One(KeyX), SeqOf(<<>>), SeqOf(<<KeyG, KeyG>>), SeqOf(<<KeyG, KeyX>>),
     SeqOf(<<KeyX, KeyG>>)}
EntryMaps ==
    {<<r>> : r \in Roots}
    \cup {<<One(KeyG), SeqOf(<<KeyG, KeyG>>)>>, <<SeqOf(<<KeyG, KeyG>>), One(KeyG)>>}
Entries(action) == {Entry(action, m) : m \in EntryMaps} \cup {NullEntry(action)}
\* the wheel pseudo-keys, as a configuration names them
WheelDown == Special("downWheel", FALSE, FALSE)
WheelUp == Special("upWheel", FALSE, FALSE)
WheelConfigs ==
    {<<Entry("scroll-down", <<One(WheelDown)>>), Entry("scroll-up", <<One(WheelUp)>>)>>}
KeyConfigs ==
    {<<a>> : a \in Entries("top") \cup Entries("help")}
    \cup WheelConfigs
    \cup {<<a, b>> : a \in Entries("top"), b \in Entries("other")}
    \cup {<<b, a>> : a \in Entries("top"), b \in Entries("other")}

\* a burst of n escape groups ESC [ X as it reaches the callback: the input layer
\* strips the leading ESC and reports the rest as a meta key without special flags
RECURSIVE Groups(_, _)
Groups(letter, n) ==
    IF n = 0 THEN <<>> ELSE <<ESC, "[", letter>> \o Groups(letter, n - 1)
Burst(letter, n) == KeyEvent(Tail(Groups(letter, n)), FALSE, TRUE, FALSE, {})
ArrowDownLetter == "B"
ArrowUpLetter == "A"

\* what the terminal sends for g, x, G and ?, and for bursts of arrow-down and
\* arrow-up groups
KeyEvents ==
    {KeyEvent(<<"g">>, FALSE, FALSE, FALSE, {}),
     KeyEvent(<<"x">>, FALSE, FALSE, FALSE, {}),
     KeyEvent(<<"G">>, FALSE, FALSE, TRUE, {}),
     KeyEvent(<<"?">>, FALSE, FALSE, FALSE, {}),
     Burst(ArrowDownLetter, 2), Burst(ArrowDownLetter, MaxGroups),
     Burst(ArrowUpLetter, 2)}

Unbuilt == Failed(EmptyTrie, "unbuilt", "", "", <<>>)

KeyIdle ==
    /\ keyCfg = <<>>
    /\ keyTrie = Unbuilt
    /\ keyCur = <<>>
    /\ keyLog = <<>>

ProcIdle ==
    /\ opts = Options(0, 0, TRUE, TRUE)
    /\ env = Env({}, {}, 0, 0, 1, 0)
    /\ plan = <<>>
    /\ nodes = RootInit
    /\ mains = <<>>
    /\ procs = <<>>
    /\ now = 1
    /\ trace = <<>>
    /\ err = "none"
    /\ fed = 0
    /\ ops = 0
    /\ created = <<>>

InitKey ==
    /\ ProcIdle
    /\ keyCfg \in KeyConfigs
    /\ keyTrie = Unbuilt
    /\ keyCur = <<>>
    /\ keyLog = <<>>

\* the hook is mounted: useMemo builds the trie, useState(trie) starts at its root
Mount ==
    /\ keyCfg # <<>>
    /\ keyTrie = Unbuilt
    /\ keyTrie' = constructKeymapping(WithHelp(keyCfg))
    /\ keyCur' = <<>>
    /\ UNCHANGED <<keyCfg, keyLog, procVars>>

\* the useInput callback of an enabled hook (34-47) for one key event
Press ==
    \E e \in KeyEvents :
        /\ keyTrie.ok
        /\ Len(keyLog) < MaxKeys
        /\ \E r \in {matchKeymapping(keyTrie, keyCur, e)} :
              /\ keyCur' = IF r.hasNext THEN r.next ELSE <<>>
              /\ keyLog' = Append(keyLog, [e |-> e, matched |-> r.matched])
        /\ UNCHANGED <<keyCfg, keyTrie, procVars>>

(***************************************************************************)
(* Specifications.                                                         *)
(***************************************************************************)
Init == InitProc /\ KeyIdle

Next ==
    \/ CreateNode
    \/ StreamData
    \/ ProcessExit
    \/ RestartNode
    \/ RestartAllNode
    \/ KillNode
    \/ KillAllNode
    \/ MarkNodeAsRead
    \/ Tick

Spec == Init /\ [][Next]_vars

NextKey == Mount \/ Press

SpecKey == InitKey /\ [][NextKey]_vars

(***************************************************************************)
(* Properties of the process manager.  trace holds the events of the last  *)
(* handler that did something: "listen" is the end of a notify pass with   *)
(* the node's status and its non-ignored children's statuses at that time, *)
(* "sched" is the serial scheduler starting child i (counted from 0) with  *)
(* the statuses of all children at that time, "spawn" and "crossKill" are  *)
(* the process being started and signalled.                                *)
(***************************************************************************)
Events == 1..Len(trace)
StatusOf(c) == nodes[c].status
\* the group registered first, and its children
Group == created[1]
Kids == nodes[Group].children
KidStatus(j) == nodes[Kids[j]].status

\* node c of the arena ns has been started: running, two sinks, a process of its own
StartedIn(ns, ps, c) ==
    /\ ns[c].status = "running"
    /\ Len(ns[c].children) = 2
    /\ \A k \in 1..2 : ns[ns[c].children[k]].name \in SinkNames
    /\ ns[c].raw \in 1..Len(ps)
    /\ ps[ns[c].raw].node = c

\* node c has sinks and a process, whatever its status is now
Spawned(c) ==
    /\ Len(nodes[c].children) = 2
    /\ \A k \in 1..2 : nodes[nodes[c].children[k]].name \in SinkNames
    /\ nodes[c].raw \in 1..Len(procs)
    /\ procs[nodes[c].raw].node = c

\* C1: after every notify pass on a node that has at least one non-ignored child, the
\* status of the node is the one the precedence rule gives for the statuses of its
\* non-ignored children (killed, else finished, else waiting, else running)
C1_StatusFollowsRule ==
    \A k \in Events :
        (trace[k].ev = "listen" /\ trace[k].cs # <<>>)
            => trace[k].st = StatusRule(nodes[trace[k].n].procOwn, trace[k].cs)

\* a running serial group of three process-owning leaves, no user operation so far
SerialRun ==
    /\ Len(created) = 4
    /\ nodes[Group].type = "serial"
    /\ ~nodes[Group].procOwn
    /\ nodes[Group].status = "running"
    /\ ops = 0

\* C2: in a running serial group of three process-owning leaves, child 0 is started;
\* child 1 is waiting exactly until child 0 is finished and child 2 exactly until
\* child 1 is finished; a child that is not waiting has its sinks and its process;
\* and the scheduler starts a child in the pass that sees its predecessor finished,
\* that pass spawning the child's process
C2_SerialPipeline ==
    SerialRun =>
        /\ KidStatus(1) \in {"running", "finished"}
        /\ \A j \in 2..3 : (KidStatus(j) = "waiting") <=> (KidStatus(j - 1) # "finished")
        /\ \A j \in 1..3 : (KidStatus(j) # "waiting") <=> Spawned(Kids[j])
        /\ \A k \in Events :
              (trace[k].ev = "sched" /\ trace[k].n = Group)
                  => /\ trace[k].i >= 1
                     /\ trace[k].cs[trace[k].i] = "finished"
                     /\ trace[k].cs[trace[k].i + 1] = "waiting"
                     /\ \E m \in Events :
                           /\ m > k
                           /\ trace[m].ev = "spawn"
                           /\ trace[m].n = Kids[trace[k].i + 1]

\* the exit of child 1 has just made the scheduler start child 2
C2_Witness ==
    /\ SerialRun
    /\ KidStatus(1) = "finished"
    /\ KidStatus(2) = "finished"
    /\ KidStatus(3) = "running"
    /\ \E k \in Events : trace[k].ev = "sched" /\ trace[k].n = Group /\ trace[k].i = 2

\* C3: the serial scheduler starts child i >= 1 only when child i-1 is finished, and
\* starts no child behind a child that is waiting, running or killed: when it starts
\* child i, every child in front of it is finished
C3_StrictPipeline ==
    \A k \in Events :
        trace[k].ev = "sched"
            => \A j \in 1..trace[k].i : trace[k].cs[j] = "finished"

\* a createNode step that registered a node; the new node is the next of the arena
Registered == plan # <<>> /\ plan' = Tail(plan) /\ Len(nodes') > Len(nodes)
NewChild == Len(nodes) + 1
ParallelChild(ns, c) ==
    /\ ns[c].procOwn
    /\ ns[c].type = "none"
    /\ ns[ns[c].parent].type = "parallel"

\* a parallel group whose three children have been registered, no process has exited
\* and the user has done nothing
ParallelRun ==
    /\ Len(created) = 4
    /\ nodes[Group].type = "parallel"
    /\ \A j \in 1..3 : nodes[Kids[j]].procOwn
    /\ \A p \in 1..Len(procs) : ~procs[p].exited
    /\ ops = 0
AllThreeRunning == ParallelRun => \A j \in 1..3 : StartedIn(nodes, procs, Kids[j])

\* C4, as stated: every process-owning leaf registered under a parallel group is
\* started by the createNode call that registers it, whatever state its siblings are
\* in, and three such children are running together
C4_StartedWhenCreated ==
    [][/\ (Registered /\ ParallelChild(nodes', NewChild))
            => StartedIn(nodes', procs', NewChild)
       /\ AllThreeRunning']_vars

\* C4, amended: every process-owning leaf registered with initial status running under
\* a parallel group is started by the createNode call that registers it, whatever state
\* its siblings are in, and three such children are running together
C4_StartedWhenCreatedRunning ==
    [][/\ (Registered /\ ParallelChild(nodes', NewChild) /\ Head(plan).status = "running")
            => StartedIn(nodes', procs', NewChild)
       /\ AllThreeRunning']_vars

\* the third child of a parallel group has just been registered and started while one
\* sibling is running and another is finished or killed
C4_Witness ==
    /\ Len(created) = 4
    /\ nodes[Group].type = "parallel"
    /\ StartedIn(nodes, procs, Kids[3])
    /\ \E k \in Events : trace[k].ev = "spawn" /\ trace[k].n = Kids[3]
    /\ KidStatus(1) = "running"
    /\ KidStatus(2) \in {"finished", "killed"}

\* a process-owning node all of whose children are sinks
Leaf(n) ==
    /\ nodes[n].procOwn
    /\ \A k \in 1..Len(nodes[n].children) : nodes[nodes[n].children[k]].name \in SinkNames
\* the last committed line of a sink, with the bytes of its print tokens
NoticeOf(sink) ==
    Printable(mains[nodes[sink].log.lines[Len(nodes[sink].log.lines) - 1].main].content)
KilledLeaf(n) ==
    /\ StatusOf(n) = "killed"
    /\ StatusOf(nodes[n].children[1]) = "killed"
    /\ StatusOf(nodes[n].children[2]) = "killed"
    /\ Len(nodes[nodes[n].children[1]].log.lines) >= 2
    /\ NoticeOf(nodes[n].children[1]) = KilledText

\* C5: when killNode has signalled the process of a running process-owning leaf, the
\* leaf and its two current sinks are killed when the handler returns, and the stdout
\* sink has got a line whose printable bytes are exactly [NOTIOS] MANUALLY KILLED
C5_KillIsSynchronous ==
    \A k \in Events :
        (trace[k].ev = "crossKill" /\ Leaf(trace[k].n)) => KilledLeaf(trace[k].n)

\* a leaf has just been killed whose process had printed an unfinished line before
C5_Witness ==
    \E k \in Events :
        /\ trace[k].ev = "crossKill"
        /\ Leaf(trace[k].n)
        /\ Printable(mains[nodes[nodes[trace[k].n].children[1]].log.lines[1].main].content)
               = <<"x">>

\* C6: the exit callback of a process never changes a killed status: the node of the
\* process and the two sinks of the process, where killed before the callback, are
\* killed after it
C6_ExitKeepsKilled ==
    [][\A p \in 1..Len(procs) :
          (~procs[p].exited /\ procs'[p].exited)
              => \A c \in {procs[p].node, procs[p].out, procs[p].err} :
                    StatusOf(c) = "killed" => nodes'[c].status = "killed"]_vars

\* C7: no node ever holds more than headSize + tailSize + 1 lines
C7_LineBound ==
    \A n \in AllNodes :
        Len(nodes[n].log.lines) <= HeadSize(opts) + TailSize(opts) + 1

\* the lines of the nodes of S are the same in T
SameLines(S, T) ==
    \A m \in 1..Len(S.nodes) : T.nodes[m].log.lines = S.nodes[m].log.lines
\* a second pass on n, right after the pass that left S behind
Repassed(S, n) == SameLines(S, nodeNotifyUpdate(S, n))

\* C8: a notify pass on a node, run again when no child has committed a line since,
\* leaves the lines of the node and of every other node as the pass before left them
C8_PassIdempotent ==
    \A n \in AllNodes : Repassed(nodeNotifyUpdate(Cur, n), n)

\* a pass on a node with children has lines to merge, so that the second pass must
\* recognise what the first one merged; and a node has evicted history
C8_Witness ==
    /\ \E n \in AllNodes :
          /\ ActiveChildren(Cur, n) # <<>>
          /\ nodeNotifyUpdate(Cur, n).nodes[n].log.lines # nodes[n].log.lines
    /\ \E n \in AllNodes : nodes[n].logOmitted

(***************************************************************************)
(* Properties of the key mapping.                                          *)
(***************************************************************************)
Built == keyTrie # Unbuilt
\* the configured (action, sequence) pairs in the order of their declaration
Declared == FlatPairs(WithHelp(keyCfg))
Decl == 1..Len(Declared)
TokensOf(p) == Tokens(Declared[p].seq)
IsPrefix(s, t) == Len(s) <= Len(t) /\ SubSeq(t, 1, Len(s)) = s
\* the sequence of p is equal to, or a proper prefix of, the sequence of q
Includes(p, q) == p # q /\ IsPrefix(TokensOf(p), TokensOf(q))
ZeroLength == \E p \in Decl : Len(Declared[p].seq) = 0
Conflict == \E p, q \in Decl : Includes(p, q)
\* the error names the two actions of a conflicting pair and the longer sequence
NamesBoth ==
    /\ keyTrie.error.kind = "including"
    /\ \E p, q \in Decl :
          /\ Includes(p, q)
          /\ keyTrie.error.other = Declared[p].action
          /\ keyTrie.error.action = Declared[q].action
          /\ keyTrie.error.seq = Declared[q].seq
NamesZeroLength ==
    /\ keyTrie.error.kind = "zero-length"
    /\ \E p \in Decl :
          /\ Len(Declared[p].seq) = 0
          /\ keyTrie.error.action = Declared[p].action

\* C9, as stated: construction fails whenever one configured sequence is equal to or a
\* proper prefix of another, whichever is declared first, the error naming both
\* actions; it succeeds when no configured sequence is a prefix of another
C9_PrefixConflict ==
    Built => /\ Conflict => (~keyTrie.ok /\ NamesBoth)
             /\ ~Conflict => keyTrie.ok

\* C9, amended: construction fails, naming the offending action, whenever a configured
\* sequence is empty; otherwise it fails whenever one configured sequence is equal to
\* or a proper prefix of another, whichever is declared first, the error naming both
\* actions; it succeeds when no configured sequence is empty or a prefix of another
C9_PrefixConflictNonEmpty ==
    Built => /\ ZeroLength => (~keyTrie.ok /\ NamesZeroLength)
             /\ (~ZeroLength /\ Conflict) => (~keyTrie.ok /\ NamesBoth)
             /\ (~ZeroLength /\ ~Conflict) => keyTrie.ok

\* construction has failed on two actions, the longer sequence being declared first
C9_Witness ==
    /\ Built
    /\ ~ZeroLength
    /\ ~keyTrie.ok
    /\ keyTrie.error.action # keyTrie.error.other
    /\ \E p, q \in Decl :
          /\ p > q
          /\ Includes(p, q)
          /\ Len(TokensOf(p)) < Len(TokensOf(q))
          /\ keyTrie.error.other = Declared[p].action
          /\ keyTrie.error.action = Declared[q].action

\* the walk as the configuration defines it: a position is a proper prefix of a
\* configured sequence
Configured == {TokensOf(p) : p \in Decl}
OnTheWay(pos) == \E t \in Configured : Len(pos) < Len(t) /\ IsPrefix(pos, t)
ActionAt(pos) == Declared[CHOOSE p \in Decl : TokensOf(p) = pos].action
WalkNext(pos, tok) ==
    IF Append(pos, tok) \notin Configured /\ OnTheWay(Append(pos, tok))
    THEN Append(pos, tok)
    ELSE <<>>
WalkFires(pos, tok) ==
    IF Append(pos, tok) \in Configured THEN ActionAt(Append(pos, tok)) ELSE Undefined
RECURSIVE WalkPos(_)
\* the position after the first k keys
WalkPos(k) ==
    IF k = 0 THEN <<>> ELSE WalkNext(WalkPos(k - 1), Normalise(keyLog[k].e))
Inputs == [k \in 1..Len(keyLog) |-> keyLog[k].e.input]
Fired == [k \in 1..Len(keyLog) |-> keyLog[k].matched]
TopOnGG ==
    \E p \in Decl : Declared[p].action = "top" /\ Declared[p].seq = <<KeyG, KeyG>>
\* nothing is bound to g,x
NoGX == Tokens(<<KeyG, KeyX>>) \notin Configured

\* C10: matching is a walk with one position: a key that cannot descend fires nothing
\* and resets to the root without being tried again from the root, a key that reaches
\* a bound node fires its action once and resets to the root, a key that reaches an
\* unbound node keeps that position; with g,g bound to top and nothing bound to g,x,
\* g,x fires nothing and ends at the root and g,g fires top once and ends at the root
C10_SinglePositionWalk ==
    keyTrie.ok =>
        /\ keyCur = WalkPos(Len(keyLog))
        /\ \A k \in 1..Len(keyLog) :
              keyLog[k].matched = WalkFires(WalkPos(k - 1), Normalise(keyLog[k].e))
        /\ (TopOnGG /\ NoGX /\ Inputs = <<<<"g">>, <<"x">>>>)
              => (Fired = <<Undefined, Undefined>> /\ keyCur = <<>>)
        /\ (TopOnGG /\ Inputs = <<<<"g">>, <<"g">>>>)
              => (Fired = <<Undefined, "top">> /\ keyCur = <<>>)

\* g,x has been typed where g,g is top and x alone is bound to another action
C10_Witness ==
    /\ keyTrie.ok
    /\ TopOnGG
    /\ \E p \in Decl : Declared[p].action = "other" /\ Declared[p].seq = <<KeyX>>
    /\ Inputs = <<<<"g">>, <<"x">>>>
    /\ Fired = <<Undefined, Undefined>>
    /\ keyCur = <<>>

(***************************************************************************)
(* More properties of the process manager.  Besides the events above,      *)
(* trace holds "return" for a createNode call that returned null,          *)
(* "append" for a call of $appendLogToNode, and for every notify pass on a *)
(* node its "exitCode" (the exit code the pass reduced and the exit codes  *)
(* of the children it reduced them from), its "merge", and its "evict"     *)
(* with the number of lines the node held before and whether the eviction  *)
(* changed the node.                                                       *)
(***************************************************************************)
\* a createNode step whose request names a parent token that is not in the registry
StaleRequest == plan # <<>> /\ plan' = Tail(plan) /\ Head(plan).parent = StaleParent
ReturnedNull == <<Event("return", 0, 0, "null", <<>>)>>

\* C11: createNode with a parent token that is not in the registry returns null, does
\* not throw and has no side effect: no node is created, no token is registered, no
\* node, line or process changes, and no listener fires
C11_StaleParentIsNoOp ==
    [][StaleRequest =>
          /\ nodes' = nodes
          /\ mains' = mains
          /\ procs' = procs
          /\ created' = created
          /\ err' = "none"
          /\ trace' = ReturnedNull]_vars

\* the request with the stale token has been answered with null while the tree holds a
\* started node, a group and a waiting leaf
C11_Witness ==
    /\ trace = ReturnedNull
    /\ plan = <<>>
    /\ Len(created) = 3
    /\ Len(procs) >= 1
    /\ err = "none"

\* C12: killNode on a node without process identity, without process handle or with a
\* status other than running, and restartNode on a node that is neither finished nor
\* killed, return at once: no node, line or process changes, no process is signalled or
\* spawned, no listener fires and nothing is thrown
C12_GuardedOpsAreNoOps ==
    \A n \in AllNodes :
        /\ (~nodes[n].procOwn \/ nodes[n].raw = NoProc \/ StatusOf(n) # "running")
              => killNode(Cur, n) = Cur
        /\ StatusOf(n) \notin {"finished", "killed"} => restartNode(Cur, n) = Cur

\* a finished node that still holds the handle of its process, a killed node that has
\* lost it, a running group without process identity and a waiting process-owning node
C12_Witness ==
    /\ \E n \in AllNodes :
          nodes[n].procOwn /\ nodes[n].raw # NoProc /\ StatusOf(n) = "finished"
    /\ \E n \in AllNodes :
          nodes[n].procOwn /\ nodes[n].raw = NoProc /\ StatusOf(n) = "killed"
    /\ \E n \in AllNodes : ~nodes[n].procOwn /\ StatusOf(n) = "running"
    /\ \E n \in AllNodes : nodes[n].procOwn /\ StatusOf(n) = "waiting"

\* the first of the exit codes that is neither null nor undefined
FirstSet(codes) ==
    codes[CHOOSE k \in 1..Len(codes) :
             /\ codes[k] \notin {"null", "undefined"}
             /\ \A j \in 1..(k - 1) : codes[j] \in {"null", "undefined"}]
SomeSet(codes) == \E k \in 1..Len(codes) : codes[k] \notin {"null", "undefined"}

\* C13: a notify pass on a node with non-ignored children leaves the node with the exit
\* code of the first non-ignored child, from left to right, whose exit code is neither
\* null nor undefined, whether that code is 0 or not
C13_FirstExitCode ==
    \A k \in Events :
        (trace[k].ev = "exitCode" /\ SomeSet(trace[k].cs))
            => trace[k].st = FirstSet(trace[k].cs)

\* the lines of a node's history that have been committed
IsCommitted(ref) == mains[ref].ts # NoTs
Committed(c) == SelectSeq(nodes[c].log.hist, IsCommitted)
\* the lines of the history of p that came from its child c
FromChild(p, c) ==
    SelectSeq(nodes[p].log.hist, LAMBDA ref : ref \in Range(nodes[c].log.hist))
\* the last handler has run a notify pass on p and has appended nothing to a log since
PassedLast(p) ==
    \E k \in Events :
        /\ trace[k].ev = "listen"
        /\ trace[k].n = p
        /\ \A j \in Events : j > k => trace[j].ev # "append"

\* C14: after a notify pass on a node, every line a non-ignored child has committed has
\* been appended to the log of the node exactly once, in the order of the child (none
\* skipped, none repeated), at the parent of a sink and at every ancestor, also after
\* evictions and restarts
C14_MergedOnce ==
    \A p \in AllNodes :
        PassedLast(p) =>
            \A k \in 1..Len(nodes[p].children) :
                ~nodes[nodes[p].children[k]].ignored
                    => FromChild(p, nodes[p].children[k]) = Committed(nodes[p].children[k])

\* the ids of the lines of node n other than marker lines, in line order
IdsOf(n) ==
    [k \in 1..Len(SelectSeq(nodes[n].log.lines, LAMBDA l : l.main # 0)) |->
        mains[SelectSeq(nodes[n].log.lines, LAMBDA l : l.main # 0)[k].main].id]

\* C15: within the log of a node the ids of the lines other than marker lines are
\* pairwise distinct and strictly increasing in line order
C15_IdsIncrease ==
    \A n \in AllNodes :
        \A k \in 1..(Len(IdsOf(n)) - 1) : IdsOf(n)[k] < IdsOf(n)[k + 1]

\* the commit timestamp of line k of node n (NoTs when the line is not committed)
TsOf(n, k) == LineTs(Cur, nodes[n].log.lines[k])

\* C16: the lines of every node are in non-decreasing order of their commit timestamps,
\* and only the last line of a node may be without a timestamp
C16_LinesInTimeOrder ==
    \A n \in AllNodes :
        \A k \in 1..(Len(nodes[n].log.lines) - 1) :
            /\ TsOf(n, k) # NoTs
            /\ TsOf(n, k + 1) # NoTs => TsOf(n, k) <= TsOf(n, k + 1)

\* the evictions of the last handler that changed their node
Wipes == {k \in Events : trace[k].ev = "evict" /\ trace[k].st = "wiped"}
Window == HeadSize(opts) + TailSize(opts) + 1
\* what eviction makes of the lines of node n
WipedLines(n) == WipeHistory(Cur, n).nodes[n].log.lines
IsMarker(line) == line.main = 0 /\ MainOf(Cur, 0).id = MarkerId /\ MainOf(Cur, 0).read

\* C17: eviction changes a node only if the node holds more than headSize + tailSize + 1
\* lines; it then keeps the first headSize lines, puts one marker line (id -1, read)
\* behind them, keeps the last tailSize lines and sets the history-omitted flag; a node
\* within the window is left as it is
C17_EvictsBeyondWindow ==
    /\ \A k \in Wipes : trace[k].i > Window
    /\ \A n \in AllNodes :
          IF Len(nodes[n].log.lines) > Window
          THEN /\ Len(WipedLines(n)) = Window
               /\ SubSeq(WipedLines(n), 1, HeadSize(opts))
                     = SubSeq(nodes[n].log.lines, 1, HeadSize(opts))
               /\ IsMarker(WipedLines(n)[HeadSize(opts) + 1])
               /\ SubSeq(WipedLines(n), HeadSize(opts) + 2, Window)
                     = TakeLast(nodes[n].log.lines, TailSize(opts))
               /\ WipeHistory(Cur, n).nodes[n].logOmitted
          ELSE WipeHistory(Cur, n) = Cur

IsSink(c) == nodes[c].name \in SinkNames
\* a process-owning node that has been started: it has got sinks
Started(n) == nodes[n].procOwn /\ \E k \in 1..Len(nodes[n].children) : IsSink(nodes[n].children[k])
\* the sinks of n that are not ignored, and the children that count for n when only
\* its first two sinks do: those two and the nodes registered under n
LiveSinks(n) == SelectSeq(nodes[n].children, LAMBDA c : IsSink(c) /\ ~nodes[c].ignored)
Counting(n) == SubSeq(nodes[n].children, 1, 2) \o SelectSeq(nodes[n].children, LAMBDA c : ~IsSink(c))
\* the sinks of a started node: two in front that are not ignored, the others ignored
TwoSinksInFront ==
    \A n \in AllNodes :
        Started(n) =>
            /\ Len(nodes[n].children) >= 2
            /\ LiveSinks(n) = SubSeq(nodes[n].children, 1, 2)
            /\ nodes[nodes[n].children[1]].name = "<out>"
            /\ nodes[nodes[n].children[2]].name = "<err>"
            /\ \A k \in 1..Len(nodes[n].children) :
                  IsSink(nodes[n].children[k]) => ~nodes[nodes[n].children[k]].procOwn
\* a pass on a started node has left it with the status and exit code that its first
\* two sinks and the nodes registered under it give
OldSinksDoNotCount ==
    \A k \in Events :
        (trace[k].ev = "listen" /\ Started(trace[k].n)) =>
            /\ StatusOf(trace[k].n) = StatusRule(TRUE, ChildStatuses(Cur, Counting(trace[k].n)))
            /\ nodes[trace[k].n].exitCode = ExitCodeReduce(Cur, Counting(trace[k].n), "null")
\* node n is restarted in this step: it gets new sinks in front of those it has
Restarted(n) == Started(n) /\ nodes'[n].children[1] # nodes[n].children[1]
\* the lines that get into the history of n in this step
NewLines(n) == Range(nodes'[n].log.hist) \ Range(nodes[n].log.hist)

SchedChild(k) == nodes[trace[k].n].children[trace[k].i + 1]
\* event k is the scheduler starting a parallel or none group without process identity
StartsGroup(k) ==
    /\ trace[k].ev = "sched"
    /\ ~nodes[SchedChild(k)].procOwn
    /\ nodes[SchedChild(k)].type \in {"parallel", "none"}

\* C19: when the scheduler of a serial node starts a parallel or none group without
\* process identity, every waiting child of the group is started with it: none of its
\* children is waiting when the handler returns
C19_GroupStartStartsChildren ==
    \A k \in Events :
        StartsGroup(k) =>
            \A j \in 1..Len(nodes[SchedChild(k)].children) :
                StatusOf(nodes[SchedChild(k)].children[j]) # "waiting"

ParentOf(k) == nodes[trace[k].n].parent
\* the pass that merged in event i has done its eviction before event k
EvictedBefore(i, k) ==
    \E j \in Events : i < j /\ j < k /\ trace[j].ev = "evict" /\ trace[j].n = trace[i].n
\* merging goes up: the merge of a node is followed by the merge of its parent
MergesBottomUp ==
    \A i \in Events :
        (trace[i].ev = "merge" /\ ParentOf(i) # NoParent)
            => \E j \in Events : j > i /\ trace[j].ev = "merge" /\ trace[j].n = ParentOf(i)
\* listeners go down: those of the parent are called before those of the node
ListensTopDown ==
    \A k \in Events :
        (trace[k].ev = "listen" /\ ParentOf(k) # NoParent)
            => \E j \in Events : j < k /\ trace[j].ev = "listen" /\ trace[j].n = ParentOf(k)

\* C20: in a notify pass merging runs bottom-up along the path to the root, then every
\* node of the path is evicted, and only then are listeners called, from those of the
\* root down to those of the node the pass started at: when listeners are called, every
\* node that has merged has been evicted
C20_ListenersAfterEviction ==
    /\ MergesBottomUp
    /\ ListensTopDown
    /\ \A k \in Events :
          trace[k].ev = "listen"
              => \A i \in 1..(k - 1) : trace[i].ev = "merge" => EvictedBefore(i, k)

(***************************************************************************)
(* Claims about the wheel tokens, thrown errors, the status of groups and  *)
(* sinks, serial scheduling and unread sets.                               *)
(***************************************************************************)
IsBurst(e, letter) == Repeated(e.input, letter)
DownWheelToken == keymappingToString(WheelDown)
UpWheelToken == keymappingToString(WheelUp)
Logged == {keyLog[i].e : i \in 1..Len(keyLog)}

\* the raw patterns are tried first: the token of a burst does not depend on
\* the structured key
RawPatternFirst ==
    \A e \in Logged, ctrl \in BOOLEAN, meta \in BOOLEAN, shift \in BOOLEAN,
       flags \in SUBSET {"downArrow", "upArrow", "escape"} :
        IsBurst(e, ArrowDownLetter) \/ IsBurst(e, ArrowUpLetter)
            => Normalise(KeyEvent(e.input, ctrl, meta, shift, flags)) = Normalise(e)

\* what the code does: the tokens are the other way round
WheelTokensSwapped ==
    \A e \in Logged :
        /\ IsBurst(e, ArrowDownLetter) => Normalise(e) = UpWheelToken
        /\ IsBurst(e, ArrowUpLetter) => Normalise(e) = DownWheelToken

\* C21: a burst of arrow-down groups is normalised to the downward wheel
\* token and a burst of arrow-up groups to the upward wheel token, whatever
\* the structured key says; so a burst fires the action bound to that wheel.
C21_WheelTokens ==
    /\ RawPatternFirst
    /\ \A i \in 1..Len(keyLog) :
          /\ IsBurst(keyLog[i].e, ArrowDownLetter)
                => /\ Normalise(keyLog[i].e) = DownWheelToken
                   /\ keyCfg \in WheelConfigs => keyLog[i].matched = "scroll-down"
          /\ IsBurst(keyLog[i].e, ArrowUpLetter)
                => /\ Normalise(keyLog[i].e) = UpWheelToken
                   /\ keyCfg \in WheelConfigs => keyLog[i].matched = "scroll-up"

\* the nodes that killNode and restartNode go on to change: their guards pass
KillAddresses(n) ==
    nodes[n].procOwn /\ nodes[n].raw # NoProc /\ nodes[n].status = "running"
RestartAddresses(n) ==
    nodes[n].procOwn /\ nodes[n].status \in {"finished", "killed"}
FirstTwoAreSinks(n) ==
    /\ Len(nodes[n].children) >= 2
    /\ IsSink(nodes[n].children[1])
    /\ IsSink(nodes[n].children[2])

\* C22: no handler throws, and every node that kill or restart would act on
\* has two sinks as its first two children.
C22_NoThrownError ==
    /\ err = "none"
    /\ \A n \in AllNodes :
          KillAddresses(n) \/ RestartAddresses(n) => FirstTwoAreSinks(n)

\* the passes of the last handler, as their listeners saw them: the node, its
\* status and the statuses of its non-ignored children at the end of the pass
Passes == {trace[k] : k \in {j \in 1..Len(trace) : trace[j].ev = "listen"}}
SomeChild(pass, statuses) == \E k \in 1..Len(pass.cs) : pass.cs[k] \in statuses
EveryChild(pass, statuses) == \A k \in 1..Len(pass.cs) : pass.cs[k] \in statuses

\* what the rule gives when no child is running or waiting: running unless all
\* children are finished or, under a node that owns a process, all are killed
RunningWithoutLiveChild ==
    \A pass \in Passes :
        pass.cs # <<>> /\ pass.st = "running" /\ ~SomeChild(pass, {"running", "waiting"})
            => /\ SomeChild(pass, {"killed"})
               /\ nodes[pass.n].procOwn => SomeChild(pass, {"finished"})

\* C23: at the end of a notify pass, a node that has non-ignored children is
\* running only if one of those children is running or waiting.
C23_RunningHasLiveChild ==
    \A pass \in Passes :
        pass.cs # <<>> /\ pass.st = "running" => SomeChild(pass, {"running", "waiting"})

Terminal == {"finished", "killed"}
\* the sinks whose status a step changes
SinkChanges == {c \in AllNodes : IsSink(c) /\ nodes'[c].status # nodes[c].status}

\* a killed sink stays killed, and a finished sink changes only in a kill of the
\* node it belongs to, which makes it killed
TerminalSinkOnlyKilled ==
    [][\A c \in SinkChanges :
          nodes[c].status \in Terminal
              => /\ nodes[c].status = "finished"
                 /\ nodes'[c].status = "killed"
                 /\ \E k \in 1..Len(trace') :
                       trace'[k].ev = "crossKill" /\ trace'[k].n = nodes[c].parent]_vars

\* C24: once a sink is finished or killed, no step changes its status.
C24_TerminalSinkAbsorbing ==
    [][\A c \in SinkChanges : nodes[c].status \notin Terminal]_vars

\* the scenario of the behaviour, and the request that registered node n (a request
\* that names a stale parent registers nothing; no scenario has one in front of
\* another request)
ThisScenario ==
    CHOOSE sc \in Scenarios :
        /\ sc.opts = opts
        /\ sc.env = env
        /\ \E k \in 0..Len(sc.reqs) : plan = SubSeq(sc.reqs, k + 1, Len(sc.reqs))
        /\ Len(created) <= Len(sc.reqs)
        /\ \A k \in 1..Len(created) :
              /\ nodes[created[k]].name = sc.reqs[k].name
              /\ nodes[created[k]].type = sc.reqs[k].type
              /\ nodes[created[k]].procOwn = sc.reqs[k].procOwn
RequestOf(n) == ThisScenario.reqs[CHOOSE k \in 1..Len(created) : created[k] = n]
CreatedWaiting(c) == c \in Range(created) /\ RequestOf(c).status = "waiting"

\* a serial node that has children, all of them registered as waiting
WaitingQueue(n) ==
    /\ nodes[n].type = "serial"
    /\ nodes[n].children # <<>>
    /\ \A k \in 1..Len(nodes[n].children) : CreatedWaiting(nodes[n].children[k])
RunningKids(n) ==
    {k \in 1..Len(nodes[n].children) : nodes[nodes[n].children[k]].status = "running"}

\* C25: under a serial node whose children were all registered as waiting, at
\* most one child is running, and a child behind the first is running only
\* while the child in front of it is finished.
C25_OneRunningInSerial ==
    \A n \in AllNodes :
        WaitingQueue(n)
            => /\ Cardinality(RunningKids(n)) <= 1
               /\ \A k \in RunningKids(n) :
                     k >= 2 => nodes[nodes[n].children[k - 1]].status = "finished"

\* the LogLine objects of the node's current log, and those whose main is not read
LineOids(n) == {nodes[n].log.lines[k].oid : k \in 1..Len(nodes[n].log.lines)}
NotRead(n) ==
    {nodes[n].log.lines[k].oid :
        k \in {j \in 1..Len(nodes[n].log.lines) :
                  ~MainOf(Cur, nodes[n].log.lines[j].main).read}}

\* the unread set holds lines of the current log only, and every line of the
\* current log that is not read
UnreadCoversNotRead ==
    \A n \in AllNodes :
        /\ nodes[n].log.unreadLines \subseteq LineOids(n)
        /\ NotRead(n) \subseteq nodes[n].log.unreadLines

RECURSIVE Below(_)
\* n and its descendants
Below(n) == {n} \cup UNION {Below(nodes[n].children[k]) : k \in 1..Len(nodes[n].children)}

\* markNodeAsRead leaves the node it is called on and all its descendants
\* without unread lines
MarkClearsBelow ==
    \A n \in AllNodes :
        \A c \in Below(n) : markNodeAsRead(Cur, n).nodes[c].log.unreadLines = {}

\* C26: with unread tracking enabled, the unread set of a node is the set of
\* the lines of its current log whose read flag is false.
C26_UnreadIsNotRead ==
    opts.enableUnreadMarker
        => \A n \in AllNodes : nodes[n].log.unreadLines = NotRead(n)

====
